---- MODULE Spec2Model ----
(***************************************************************************)
(* rust-bitcoinconsensus: the flag policy (height_to_flags), the public    *)
(* verification API (verify, verify_with_flags) and the FFI call into      *)
(* libbitcoinconsensus, as a state machine.                                *)
(*                                                                         *)
(* Numbers.  TLC's integers are 32-bit signed, so a u32 is kept as a pair  *)
(* <<hi, lo>> of 16-bit halves (value hi * 2^16 + lo) and a 64-bit usize   *)
(* as [high |-> upper 32-bit word, low |-> lower 32-bit word as a u32].    *)
(* Flag masks only ever hold low bits here and stay plain naturals.        *)
(***************************************************************************)
EXTENDS Integers, Sequences, FiniteSets, TLC

VARIABLES pc, call, frame, eargs, error, out, result, memo, history, returned,
          height, flag

vars == <<pc, call, frame, eargs, error, out, result, memo, history, returned,
          height, flag>>

bindingVars == <<pc, call, frame, eargs, error, out, result, memo, history, returned>>

policyVars == <<height, flag>>

----------------------------------------------------------------------------
(* Bounds of the model. *)

\* usize values have their upper 32-bit word in 0..MaxHigh (0: fits a c_uint).
MaxHigh == 1
\* Input indexes have their lower word in 0..MaxIndex, or u32::MAX.
MaxIndex == 1
\* Spending transactions have 1..MaxInputs inputs.
MaxInputs == 2
\* A transaction buffer holds 0..MaxTrailing bytes after the transaction.
MaxTrailing == 1
\* Amounts range over 0..MaxAmount.
MaxAmount == 1
\* The highest flag bit sampled on its own (above every defined rule bit).
MaxFlagBit == 12
\* Heights are sampled within Margin of every activation threshold.
Margin == 1

----------------------------------------------------------------------------
(* Machine integers. *)

Half == 2^16

\* The u32 with value n, for n that TLC can hold.
U32(n) == <<n \div Half, n % Half>>

U32Max == <<Half - 1, Half - 1>>

\* a >= b on u32.
Ge32(a, b) == a[1] > b[1] \/ (a[1] = b[1] /\ a[2] >= b[2])

\* The usize with upper word high and lower word low.
Usize(high, low) == [high |-> high, low |-> low]

\* a >= b on usize.
GeUsize(a, b) == a.high > b.high \/ (a.high = b.high /\ Ge32(a.low, b.low))

\* `x as c_uint` for x: usize -- keeps the low 32 bits, drops the upper word.
usize_as_c_uint(x) == x.low

RECURSIVE BitAnd(_, _)
BitAnd(a, b) ==
    IF a = 0 \/ b = 0 THEN 0
    ELSE (a % 2) * (b % 2) + 2 * BitAnd(a \div 2, b \div 2)

RECURSIVE BitOr(_, _)
BitOr(a, b) ==
    IF a = 0 THEN b
    ELSE IF b = 0 THEN a
    ELSE (IF a % 2 = 1 \/ b % 2 = 1 THEN 1 ELSE 0) + 2 * BitOr(a \div 2, b \div 2)

\* 1 << k
Shl1(k) == 2^k

----------------------------------------------------------------------------
(* Flag policy. *)

VERIFY_NONE == 0
VERIFY_P2SH == Shl1(0)
VERIFY_DERSIG == Shl1(2)
VERIFY_NULLDUMMY == Shl1(4)
VERIFY_CHECKLOCKTIMEVERIFY == Shl1(9)
VERIFY_CHECKSEQUENCEVERIFY == Shl1(10)
VERIFY_WITNESS == Shl1(11)

VERIFY_ALL ==
    BitOr(VERIFY_P2SH,
    BitOr(VERIFY_DERSIG,
    BitOr(VERIFY_NULLDUMMY,
    BitOr(VERIFY_CHECKLOCKTIMEVERIFY,
    BitOr(VERIFY_CHECKSEQUENCEVERIFY, VERIFY_WITNESS)))))

\* Mutants of height_to_flags: a rule assigned instead of accumulated; the last
\* activation forgetting NULLDUMMY; P2SH set on an undefined bit.
height_to_flags_assign(h) ==
    LET f1 == IF Ge32(h, U32(173805)) THEN VERIFY_P2SH ELSE VERIFY_NONE
        f2 == IF Ge32(h, U32(363725)) THEN BitOr(f1, VERIFY_DERSIG) ELSE f1
        f3 == IF Ge32(h, U32(388381)) THEN VERIFY_CHECKLOCKTIMEVERIFY ELSE f2
        f4 == IF Ge32(h, U32(419328)) THEN BitOr(f3, VERIFY_CHECKSEQUENCEVERIFY) ELSE f3
        f5 == IF Ge32(h, U32(481824))
              THEN BitOr(f4, BitOr(VERIFY_NULLDUMMY, VERIFY_WITNESS)) ELSE f4
    IN  f5

height_to_flags_no_nulldummy(h) ==
    LET f1 == IF Ge32(h, U32(173805)) THEN VERIFY_P2SH ELSE VERIFY_NONE
        f2 == IF Ge32(h, U32(363725)) THEN BitOr(f1, VERIFY_DERSIG) ELSE f1
        f3 == IF Ge32(h, U32(388381)) THEN BitOr(f2, VERIFY_CHECKLOCKTIMEVERIFY) ELSE f2
        f4 == IF Ge32(h, U32(419328)) THEN BitOr(f3, VERIFY_CHECKSEQUENCEVERIFY) ELSE f3
        f5 == IF Ge32(h, U32(481824)) THEN BitOr(f4, VERIFY_WITNESS) ELSE f4
    IN  f5

height_to_flags_bad_bit(h) ==
    LET f1 == IF Ge32(h, U32(173805)) THEN Shl1(1) ELSE VERIFY_NONE
        f2 == IF Ge32(h, U32(363725)) THEN BitOr(f1, VERIFY_DERSIG) ELSE f1
        f3 == IF Ge32(h, U32(388381)) THEN BitOr(f2, VERIFY_CHECKLOCKTIMEVERIFY) ELSE f2
        f4 == IF Ge32(h, U32(419328)) THEN BitOr(f3, VERIFY_CHECKSEQUENCEVERIFY) ELSE f3
        f5 == IF Ge32(h, U32(481824))
              THEN BitOr(f4, BitOr(VERIFY_NULLDUMMY, VERIFY_WITNESS)) ELSE f4
    IN  f5

\* f1..f5 are `flag` after each of the five `if`s.
height_to_flags(h) ==
    LET f0 == VERIFY_NONE
        f1 == IF Ge32(h, U32(173805)) THEN BitOr(f0, VERIFY_P2SH) ELSE f0
        f2 == IF Ge32(h, U32(363725)) THEN BitOr(f1, VERIFY_DERSIG) ELSE f1
        f3 == IF Ge32(h, U32(388381)) THEN BitOr(f2, VERIFY_CHECKLOCKTIMEVERIFY) ELSE f2
        f4 == IF Ge32(h, U32(419328)) THEN BitOr(f3, VERIFY_CHECKSEQUENCEVERIFY) ELSE f3
        f5 == IF Ge32(h, U32(481824))
              THEN BitOr(f4, BitOr(VERIFY_NULLDUMMY, VERIFY_WITNESS)) ELSE f4
    IN  f5

\* The thresholds height_to_flags compares with.
ActivationHeights == {173805, 363725, 388381, 419328, 481824}

----------------------------------------------------------------------------
(* Error taxonomy: #[repr(C)] enum Error, by discriminant. *)

ERR_SCRIPT == 0
ERR_TX_INDEX == 1
ERR_TX_SIZE_MISMATCH == 2
ERR_TX_DESERIALIZE == 3
ERR_AMOUNT_REQUIRED == 4
ERR_INVALID_FLAGS == 5

Error == {ERR_SCRIPT, ERR_TX_INDEX, ERR_TX_SIZE_MISMATCH, ERR_TX_DESERIALIZE,
          ERR_AMOUNT_REQUIRED, ERR_INVALID_FLAGS}

\* Result<(), Error>; NoResult before a call has returned.
Ok == <<"Ok">>
Err(e) == <<"Err", e>>
NoResult == <<>>

----------------------------------------------------------------------------
(* verify and verify_with_flags. *)

\* Mutant: the flag mask cleaned before it is handed over.
flags_masked(flags) == BitAnd(flags, VERIFY_ALL)

\* `flags as c_uint` for flags: u32 -- c_uint is u32, the value is kept.
flags_as_c_uint(flags) == flags

\* The arguments of ffi::bitcoinconsensus_verify_script_with_amount, built from
\* the parameters p of verify_with_flags.  A buffer stands for its pointer; the
\* &mut error argument is ErrSlot of the calling thread.
ffi_args(p) ==
    [script_pubkey    |-> p.spent_output_script,
     script_pubkeylen |-> usize_as_c_uint(p.spent_output_script.len),
     amount           |-> p.amount,
     tx_to            |-> p.spending_transaction,
     tx_tolen         |-> usize_as_c_uint(p.spending_transaction.len),
     n_in             |-> usize_as_c_uint(p.input_index),
     flags            |-> flags_as_c_uint(p.flags)]

\* Mutant: the out-parameter keeps what the last call left in it.
error_uninit(old) == old

\* `let mut error = Error::ERR_SCRIPT;` -- old is what the stack slot held.
error_init(old) == ERR_SCRIPT

\* Mutant: only non-positive return codes are failures.
verify_result_nonpositive(ret, err) == IF ret <= 0 THEN Err(err) ELSE Ok

\* `if ret != 1 { Err(error) } else { Ok(()) }`
verify_result(ret, err) == IF ret # 1 THEN Err(err) ELSE Ok

\* Mutant: verify leaves the witness rule out.
verify_without_witness(spent_output, amount, spending_transaction, input_index) ==
    [spent_output_script  |-> spent_output,
     amount               |-> amount,
     spending_transaction |-> spending_transaction,
     input_index          |-> input_index,
     flags                |-> VERIFY_ALL - VERIFY_WITNESS]

\* verify: the parameters it calls verify_with_flags with.
verify(spent_output, amount, spending_transaction, input_index) ==
    [spent_output_script  |-> spent_output,
     amount               |-> amount,
     spending_transaction |-> spending_transaction,
     input_index          |-> input_index,
     flags                |-> VERIFY_ALL]

\* Mutant: one out-parameter shared by every call (a static).
ErrSlotShared(t) == "t1"

\* Where thread t's `error` lives: a local of its own verify_with_flags frame.
ErrSlot(t) == t

----------------------------------------------------------------------------
(* The native engine.  Its return code is a c_int, and it may or may not    *)
(* write the out-parameter: write is {} (nothing written) or {e}.          *)

\* Return codes sampled: -1..MaxRet.
MaxRet == 2
RetCodes == -1..MaxRet

Writes == {{}} \cup {{e} : e \in Error}

\* Everything an engine can do on one call.
Outcomes == [ret : RetCodes, write : Writes]

\* The engines of the concurrent specification return 0 or 1 and write nothing
\* or one of the errors 0..MaxConcErr.
MaxConcErr == 1
ConcOutcomes == [ret : 0..1, write : {{}} \cup {{e} : e \in 0..MaxConcErr}]

\* set_error(err, e); return 0
Fail(e) == [ret |-> 0, write |-> {e}]

\* libbitcoinconsensus' verify_script on the arguments a: the first tx_tolen
\* bytes at tx_to hold a transaction iff the buffer starts with one (ser > 0)
\* that ends within them.  scriptOk is what the script interpreter answers.
bitcoinconsensus_verify_script_with_amount(a, scriptOk) ==
    IF BitAnd(a.flags, VERIFY_ALL) # a.flags THEN Fail(ERR_INVALID_FLAGS)
    ELSE IF ~(a.tx_to.ser > 0 /\ Ge32(a.tx_tolen, U32(a.tx_to.ser)))
         THEN Fail(ERR_TX_DESERIALIZE)
    ELSE IF Ge32(a.n_in, U32(a.tx_to.vin)) THEN Fail(ERR_TX_INDEX)
    ELSE IF a.tx_tolen # U32(a.tx_to.ser) THEN Fail(ERR_TX_SIZE_MISMATCH)
    ELSE [ret |-> IF scriptOk THEN 1 ELSE 0, write |-> {ERR_SCRIPT}]

----------------------------------------------------------------------------
(* Inputs. *)

Threads == {"t1", "t2"}

\* Serialized size of a transaction with n inputs (empty scripts, no outputs).
SerializedSize(n) == 10 + 41 * n

\* A spent-output script buffer: its length (the content is opaque).
ScriptBuffers ==
    {[len |-> Usize(0, U32(0))]} \cup {[len |-> Usize(h, U32(1))] : h \in 0..MaxHigh}

\* A spending-transaction buffer: its length, the serialized size of the
\* transaction it starts with (0: it starts with none) and that transaction's
\* number of inputs.
TxBuffers ==
    {[len |-> Usize(0, U32(0)), ser |-> 0, vin |-> 0]}
    \cup {[len |-> Usize(h, U32(SerializedSize(n) + x)), ser |-> SerializedSize(n), vin |-> n] :
            h \in 0..MaxHigh, x \in 0..MaxTrailing, n \in 1..MaxInputs}
    \cup {[len |-> Usize(h, U32(0)), ser |-> SerializedSize(n), vin |-> n] :
            h \in 1..MaxHigh, n \in 1..MaxInputs}

Amounts == 0..MaxAmount

Indexes ==
    {Usize(h, l) : h \in 0..MaxHigh, l \in {U32(k) : k \in 0..MaxIndex} \cup {U32Max}}

HeightSamples ==
    {U32(d) : d \in 0..Margin}
    \cup {U32(t + d) : t \in ActivationHeights, d \in (0 - Margin)..Margin}
    \cup {<<Half \div 2, d>> : d \in 0..Margin}
    \cup {<<Half - 1, Half - 1 - d>> : d \in 0..Margin}

PolicyFlags == {height_to_flags(h) : h \in HeightSamples}

Flags ==
    PolicyFlags
    \cup {VERIFY_ALL + 1, Shl1(MaxFlagBit), BitOr(VERIFY_ALL, Shl1(MaxFlagBit))}

\* A call of the public API: the function and its arguments.
VerifyCalls(S, A, T, I) == {[fn |-> "verify", args |-> <<s, a, tx, i>>] :
                                s \in S, a \in A, tx \in T, i \in I}
VerifyWithFlagsCalls(S, A, T, I, F) ==
    {[fn |-> "verify_with_flags", args |-> <<s, a, tx, i, f>>] :
        s \in S, a \in A, tx \in T, i \in I, f \in F}

\* Every sampled call.
AllCalls == VerifyCalls(ScriptBuffers, Amounts, TxBuffers, Indexes)
            \cup VerifyWithFlagsCalls(ScriptBuffers, Amounts, TxBuffers, Indexes, Flags)

\* One transaction of MaxInputs inputs in a buffer of its size, and a script.
TheScript == [len |-> Usize(0, U32(1))]
TheTx == [len |-> Usize(0, U32(SerializedSize(MaxInputs))),
          ser |-> SerializedSize(MaxInputs), vin |-> MaxInputs]
SmallIndexes == {Usize(0, U32(k)) : k \in 0..MaxIndex}

\* The calls of the specifications whose engine is arbitrary.
FewCalls == VerifyCalls({TheScript}, {0}, {TheTx}, SmallIndexes)
            \cup VerifyWithFlagsCalls({TheScript}, {0}, {TheTx}, SmallIndexes,
                                      {VERIFY_NONE, VERIFY_ALL})
ConcCalls == VerifyCalls({TheScript}, {0}, {TheTx}, {Usize(0, U32(0))})
             \cup VerifyWithFlagsCalls({TheScript}, {0}, {TheTx}, {Usize(0, U32(0))},
                                       {VERIFY_ALL, VERIFY_ALL + 1})

\* The parameters verify_with_flags runs with on the API call c.
FrameOf(c) ==
    IF c.fn = "verify"
    THEN verify(c.args[1], c.args[2], c.args[3], c.args[4])
    ELSE [spent_output_script  |-> c.args[1],
          amount               |-> c.args[2],
          spending_transaction |-> c.args[3],
          input_index          |-> c.args[4],
          flags                |-> c.args[5]]

NoCall == [fn |-> "none", args |-> <<>>]
NoFrame == [flags |-> VERIFY_NONE]
NoArgs == [flags |-> VERIFY_NONE]
NoOutcome == [ret |-> 0, write |-> {}]

----------------------------------------------------------------------------
(* The binding: one call is Call, then the engine, then Return. *)

\* The threads of T are about to call; what their stack slots hold is arbitrary.
InitBinding(T) ==
    /\ pc = [t \in Threads |-> "idle"]
    /\ call = [t \in Threads |-> NoCall]
    /\ frame = [t \in Threads |-> NoFrame]
    /\ eargs = [t \in Threads |-> NoArgs]
    /\ error \in {f \in [Threads -> Error] : \A t \in Threads \ T : f[t] = ERR_SCRIPT}
    /\ out = [t \in Threads |-> NoOutcome]
    /\ result = [t \in Threads |-> NoResult]
    /\ memo = {}
    /\ history = {}
    /\ returned = {}

InitPolicyIdle ==
    /\ height = <<U32(0), U32(0)>>
    /\ flag = <<{}, {}>>

\* Thread t enters the API with call c: verify_with_flags' frame is set up,
\* `error` initialised and the engine's arguments built.
Enter(t, c) ==
    /\ pc[t] = "idle"
    /\ pc' = [pc EXCEPT ![t] = "calling"]
    /\ call' = [call EXCEPT ![t] = c]
    /\ frame' = [frame EXCEPT ![t] = FrameOf(c)]
    /\ error' = [error EXCEPT ![ErrSlot(t)] = error_init(error[ErrSlot(t)])]
    /\ eargs' = [eargs EXCEPT ![t] = ffi_args(FrameOf(c))]
    /\ result' = [result EXCEPT ![t] = NoResult]
    /\ out' = [out EXCEPT ![t] = NoOutcome]
    /\ UNCHANGED <<memo, history, returned, policyVars>>

\* Thread t, idle, makes one of the calls C.
Call(t, C) == pc[t] = "idle" /\ \E c \in C : Enter(t, c)

\* The engine runs for thread t and does o.
EngineDoes(t, o) ==
    /\ pc[t] = "calling"
    /\ pc' = [pc EXCEPT ![t] = "returned"]
    /\ out' = [out EXCEPT ![t] = o]
    /\ error' = IF o.write = {} THEN error
                ELSE [error EXCEPT ![ErrSlot(t)] = CHOOSE e \in o.write : TRUE]
    /\ UNCHANGED <<call, frame, eargs, result, history, returned, policyVars>>

\* An engine of which nothing is known.
EngineArbitrary(t) ==
    \E o \in Outcomes : EngineDoes(t, o) /\ UNCHANGED memo

\* An engine that is some function of its arguments: memo is what it has
\* answered so far.
EngineDeterministic(t) ==
    IF \E m \in memo : m[1] = eargs[t]
    THEN /\ EngineDoes(t, (CHOOSE m \in memo : m[1] = eargs[t])[2])
         /\ UNCHANGED memo
    ELSE \E o \in ConcOutcomes :
            /\ EngineDoes(t, o)
            /\ memo' = memo \cup {<<eargs[t], o>>}

\* libbitcoinconsensus.
EngineConsensus(t) ==
    \E scriptOk \in BOOLEAN :
        /\ EngineDoes(t, bitcoinconsensus_verify_script_with_amount(eargs[t], scriptOk))
        /\ UNCHANGED memo

\* verify_with_flags maps the return code and hands the result to the caller.
ReturnCore(t) ==
    /\ pc[t] = "returned"
    /\ pc' = [pc EXCEPT ![t] = "done"]
    /\ result' = [result EXCEPT ![t] = verify_result(out[t].ret, error[ErrSlot(t)])]
    /\ UNCHANGED <<call, frame, eargs, error, out, memo, policyVars>>

\* Return, with the results returned so far kept.
Return(t) ==
    /\ ReturnCore(t)
    /\ returned' = returned \cup {result'[t]}
    /\ UNCHANGED history

\* Return, with every call and its result kept.
ReturnLogged(t) ==
    /\ ReturnCore(t)
    /\ history' = history \cup {<<call[t], result'[t]>>}
    /\ UNCHANGED returned

\* Return, nothing kept.
ReturnPlain(t) ==
    /\ ReturnCore(t)
    /\ UNCHANGED <<history, returned>>

\* The caller has taken the result; the frame is gone, the stack slot keeps
\* its bytes.
Drop(t) ==
    /\ pc[t] = "done"
    /\ pc' = [pc EXCEPT ![t] = "idle"]
    /\ call' = [call EXCEPT ![t] = NoCall]
    /\ frame' = [frame EXCEPT ![t] = NoFrame]
    /\ eargs' = [eargs EXCEPT ![t] = NoArgs]
    /\ out' = [out EXCEPT ![t] = NoOutcome]
    /\ result' = [result EXCEPT ![t] = NoResult]
    /\ UNCHANGED <<error, memo, history, returned, policyVars>>

----------------------------------------------------------------------------
(* The flag policy on two heights. *)

InitPolicy ==
    /\ height \in HeightSamples \X HeightSamples
    /\ flag = <<{}, {}>>

\* flag[i] becomes {height_to_flags(height[i])}.
ComputeFlags(i) ==
    /\ flag[i] = {}
    /\ flag' = [flag EXCEPT ![i] = {height_to_flags(height[i])}]
    /\ UNCHANGED <<height, bindingVars>>

----------------------------------------------------------------------------
(* Specifications. *)

\* One caller, an arbitrary engine.
Init == InitBinding({"t1"}) /\ InitPolicyIdle
Next ==
    \/ Call("t1", FewCalls)
    \/ EngineArbitrary("t1")
    \/ Return("t1")
    \/ Drop("t1")
Spec == Init /\ [][Next]_vars

\* Concurrent callers, an arbitrary deterministic engine.
NextConcurrent ==
    \/ \E t \in Threads : Call(t, ConcCalls)
    \/ \E t \in Threads : EngineDeterministic(t)
    \/ \E t \in Threads : ReturnLogged(t)
    \/ \E t \in Threads : Drop(t)
InitConcurrent == InitBinding(Threads) /\ InitPolicyIdle
SpecConcurrent == InitConcurrent /\ [][NextConcurrent]_vars

\* One caller, libbitcoinconsensus.
NextConsensus ==
    \/ Call("t1", AllCalls)
    \/ EngineConsensus("t1")
    \/ ReturnPlain("t1")
    \/ Drop("t1")
SpecConsensus == Init /\ [][NextConsensus]_vars

\* The flag policy alone.
NextPolicy == \E i \in 1..2 : ComputeFlags(i)
InitPolicyOnly == InitBinding({}) /\ InitPolicy
SpecPolicy == InitPolicyOnly /\ [][NextPolicy]_vars

----------------------------------------------------------------------------
(* Properties. *)

\* The OR of the six defined rule bits P2SH, DERSIG, NULLDUMMY,
\* CHECKLOCKTIMEVERIFY, CHECKSEQUENCEVERIFY and WITNESS, written out.
SixRules == 2^0 + 2^2 + 2^4 + 2^9 + 2^10 + 2^11

InvalidFlags(f) == BitAnd(f, SixRules) # f

Subset32(f, g) == BitAnd(f, g) = f

Returning(t) == pc[t] = "done"

\* C1: a call returns Ok(()) iff the engine's return code is exactly 1; with any
\* other code it returns Err(e), e being what the out-parameter holds when the
\* engine returns; with code 1 the out-parameter does not matter.
C1_ResultFollowsReturnCode ==
    \A t \in Threads :
        Returning(t) =>
            /\ (result[t] = Ok <=> out[t].ret = 1)
            /\ (out[t].ret # 1 => result[t] = Err(error[ErrSlot(t)]))

\* The engine returned 2 having written ERR_TX_INDEX and the call came back
\* Err(ERR_TX_INDEX), after an earlier call had come back Ok.
C1_Witness ==
    /\ Returning("t1")
    /\ out["t1"] = [ret |-> 2, write |-> {ERR_TX_INDEX}]
    /\ result["t1"] = Err(ERR_TX_INDEX)
    /\ Ok \in returned

\* C2: verify(spent, amount, spending, idx) hands verify_with_flags, and the
\* engine, its four arguments unchanged with the mask SixRules, and returns what
\* verify_with_flags(spent, amount, spending, idx, SixRules) returns.
C2_VerifyIsVerifyWithAllFlags ==
    /\ \A t \in Threads :
          (pc[t] # "idle" /\ call[t].fn = "verify") =>
              LET a == call[t].args
                  p == [spent_output_script |-> a[1], amount |-> a[2],
                        spending_transaction |-> a[3], input_index |-> a[4],
                        flags |-> SixRules]
              IN  frame[t] = p /\ eargs[t] = ffi_args(p)
    /\ \A x \in history, y \in history :
          (/\ x[1].fn = "verify"
           /\ y[1] = [fn |-> "verify_with_flags", args |-> Append(x[1].args, SixRules)])
              => x[2] = y[2]

\* verify and verify_with_flags(.., VERIFY_ALL) have both returned, on the same
\* four arguments, a failure.
C2_Witness ==
    \E x \in history, y \in history :
        /\ x[1].fn = "verify"
        /\ y[1] = [fn |-> "verify_with_flags", args |-> Append(x[1].args, SixRules)]
        /\ x[2] = Err(ERR_TX_INDEX)
        /\ y[2] = x[2]

\* C3: for heights h1 <= h2, height_to_flags(h1) & height_to_flags(h2) =
\* height_to_flags(h1).
C3_Monotonic ==
    \A i \in 1..2, j \in 1..2 :
        Ge32(height[j], height[i]) =>
            \A f \in flag[i], g \in flag[j] : BitAnd(f, g) = f

\* Both flags are computed, the second at a greater height, and they differ.
C3_Witness ==
    /\ flag[1] # {} /\ flag[2] # {}
    /\ Ge32(height[2], height[1]) /\ height[1] # height[2]
    /\ flag[1] # flag[2] /\ flag[1] # {0}

\* C4: height_to_flags(0) is VERIFY_NONE; at or above the largest threshold,
\* 481824, the result is exactly the six rule bits; below it, a strict subset.
C4_EndPoints ==
    /\ \A t \in ActivationHeights : 481824 >= t
    /\ \A i \in 1..2 : \A f \in flag[i] :
          /\ height[i] = U32(0) => f = 0
          /\ Ge32(height[i], U32(481824)) => f = SixRules
          /\ ~Ge32(height[i], U32(481824)) => (Subset32(f, SixRules) /\ f # SixRules)

\* Flags computed at the last threshold and one block below it.
C4_Witness ==
    /\ height = <<U32(481824), U32(481823)>>
    /\ flag[1] = {SixRules}
    /\ flag[2] # {} /\ flag[2] # {SixRules}

\* C5: verify_with_flags with a flag bit outside the defined set fails with
\* ERR_INVALID_FLAGS whatever the other arguments, and the engine is handed the
\* caller's flags value.
C5_InvalidFlagsRejected ==
    \A t \in Threads :
        (call[t].fn = "verify_with_flags" /\ InvalidFlags(call[t].args[5])) =>
            /\ pc[t] # "idle" => eargs[t].flags = call[t].args[5]
            /\ Returning(t) => result[t] = Err(ERR_INVALID_FLAGS)

\* verify_with_flags(&[], 0, &[], 0, VERIFY_ALL + 1) has returned.
C5_Witness ==
    /\ Returning("t1")
    /\ call["t1"] = [fn |-> "verify_with_flags",
                     args |-> <<[len |-> Usize(0, U32(0))], 0,
                                [len |-> Usize(0, U32(0)), ser |-> 0, vin |-> 0],
                                Usize(0, U32(0)), SixRules + 1>>]
    /\ result["t1"] = Err(ERR_INVALID_FLAGS)

\* C6: a call with a buffer of 2^32 bytes or more never gets to the engine and
\* never returns a result; the engine only ever sees a buffer's real length.
C6_OversizedBufferNeverPassed ==
    \A t \in Threads :
        pc[t] \in {"returned", "done"} =>
            /\ Usize(0, eargs[t].script_pubkeylen) = frame[t].spent_output_script.len
            /\ Usize(0, eargs[t].tx_tolen) = frame[t].spending_transaction.len

\* C7: the engine is handed the caller's input index, so with valid flags and a
\* buffer that is exactly a transaction of n inputs, an index >= n fails with
\* ERR_TX_INDEX.
C7_IndexOutOfRangeRejected ==
    \A t \in Threads :
        LET p == frame[t] IN
        (/\ Returning(t)
         /\ ~InvalidFlags(p.flags)
         /\ p.spending_transaction.ser > 0
         /\ p.spending_transaction.len = Usize(0, U32(p.spending_transaction.ser))
         /\ GeUsize(p.input_index, Usize(0, U32(p.spending_transaction.vin))))
            => /\ Usize(0, eargs[t].n_in) = p.input_index
               /\ result[t] = Err(ERR_TX_INDEX)

\* C8: calls with identical arguments return identical results, after any
\* earlier calls and with calls running on other threads.
C8_SameArgumentsSameResult ==
    /\ \A x \in history, y \in history : x[1] = y[1] => x[2] = y[2]
    /\ \A t \in Threads : \A x \in history :
          (Returning(t) /\ x[1] = call[t]) => x[2] = result[t]

\* Both threads have returned from the same call, with the same failure, and
\* another call has returned something else before.
C8_Witness ==
    /\ Returning("t1") /\ Returning("t2")
    /\ call["t1"] = call["t2"]
    /\ result["t1"] = Err(ERR_TX_INDEX)
    /\ result["t2"] = result["t1"]
    /\ \E x \in history : x[1] # call["t1"] /\ x[2] # result["t1"]

\* C9: the out-parameter is ERR_SCRIPT when the engine is invoked, on every
\* call; an engine that fails without writing it makes the call return
\* Err(ERR_SCRIPT).
C9_ErrorInitialised ==
    \A t \in Threads :
        /\ pc[t] = "calling" => error[ErrSlot(t)] = ERR_SCRIPT
        /\ (Returning(t) /\ out[t].ret # 1 /\ out[t].write = {})
              => result[t] = Err(ERR_SCRIPT)

\* An engine failed without writing, after a call that returned
\* Err(ERR_INVALID_FLAGS).
C9_Witness ==
    /\ Returning("t1")
    /\ out["t1"] = [ret |-> 0, write |-> {}]
    /\ result["t1"] = Err(ERR_SCRIPT)
    /\ Err(ERR_INVALID_FLAGS) \in returned

\* C10: height_to_flags(h) has no bit outside the six rule bits (PolicyFlags are
\* its values on the sampled heights), and verify_with_flags with such flags is
\* not rejected with ERR_INVALID_FLAGS.
C10_PolicyFlagsAreValid ==
    /\ \A f \in PolicyFlags : Subset32(f, SixRules)
    /\ \A t \in Threads :
          (/\ Returning(t)
           /\ call[t].fn = "verify_with_flags"
           /\ call[t].args[5] \in PolicyFlags)
              => result[t] # Err(ERR_INVALID_FLAGS)

\* A call with the flags of height 419328 has verified its input.
C10_Witness ==
    /\ Returning("t1")
    /\ call["t1"].fn = "verify_with_flags"
    /\ call["t1"].args[5] = height_to_flags(U32(419328))
    /\ call["t1"].args[5] # 0
    /\ result["t1"] = Ok

====
